---- MODULE Spec2Model ----
(***************************************************************************)
(* CALMID (src/calmid/calmid.py): an online ensemble with an active        *)
(* learning query controller (asymmetric margin threshold matrix), a       *)
(* label window, per-class replay queues and a drift-triggered reset of    *)
(* one base learner.                                                       *)
(*                                                                         *)
(* Python floats are modelled as exact rationals <<num, den>>, den > 0.    *)
(* The base learners (river classifiers) and the drift detectors (ADWIN)   *)
(* are external: a learner is the set of labels it was trained on, its     *)
(* predictions are any top-two ranking over the labels the learners have   *)
(* seen; a detector is the window <<total, width>> of the bits fed to it,  *)
(* which a detected drift shrinks from the old end.                        *)
(* The feature map x is opaque to the code and is left out; the weight w   *)
(* is a positive real used only as a Poisson rate, so every Poisson draw   *)
(* is a choice in 0..MaxPoisson.                                           *)
(***************************************************************************)
EXTENDS Integers, Naturals, Sequences, FiniteSets, TLC

VARIABLES n_models, time_step, learning_step, learnt_classes,
          label_to_index, label_queue, learning_queues, amt_matrix, models,
          drift_detectors, last, predicted, construction

vars == <<n_models, time_step, learning_step, learnt_classes,
          label_to_index, label_queue, learning_queues, amt_matrix, models,
          drift_detectors, last, predicted, construction>>

-----------------------------------------------------------------------------
(* Bounds of the model *)

\* the number of learn_one calls made on an ensemble of one learner
MaxSteps == 5

\* the number of learn_one calls made on an ensemble of several learners
MaxEnsembleSteps == 2

MaxPoisson == 1

\* a detected drift leaves the detector a window of at most MaxKeep entries
MaxKeep == 1

\* the number of learn_one calls made before predict_proba_one is called
MaxPredictSteps == 2

\* the number of learn_one calls made in a run without exploration
MaxDroughtSteps == 6

-----------------------------------------------------------------------------
(* Rational arithmetic standing for the float arithmetic of the code *)

RECURSIVE GCD(_, _)
GCD(a, b) == IF b = 0 THEN a ELSE GCD(b, a % b)

Abs(a) == IF a < 0 THEN -a ELSE a

Min(a, b) == IF a < b THEN a ELSE b

Norm(n, d) ==
    LET g == GCD(Abs(n), Abs(d))
        sg == IF d < 0 THEN -1 ELSE 1
    IN <<(sg * n) \div g, (sg * d) \div g>>

Frac(n, d) == Norm(n, d)

RAdd(a, b) == Norm(a[1] * b[2] + b[1] * a[2], a[2] * b[2])

RSub(a, b) == Norm(a[1] * b[2] - b[1] * a[2], a[2] * b[2])

RMul(a, b) == Norm(a[1] * b[1], a[2] * b[2])

RDiv(a, b) == Norm(a[1] * b[2], a[2] * b[1])

RLt(a, b) == a[1] * b[2] < b[1] * a[2]

RLe(a, b) == a[1] * b[2] <= b[1] * a[2]

RMax(a, b) == IF RLt(a, b) THEN b ELSE a

Zero == <<0, 1>>

One == <<1, 1>>

Half == <<1, 2>>

-----------------------------------------------------------------------------
(* Constructor arguments: CALMID.__init__ *)

n_classes == 2

\* the ensemble sizes n_models the ensemble is constructed with
EnsembleSizes == {1, 2}

sizelab == 3

theta == <<1, 4>>

step_size == <<1, 2>>

epsilon == <<1, 8>>

budget == <<3, 5>>

\* the labels of the stream: at most n_classes distinct ones
Labels == {"A", "B"}

\* Python's None: the not-queried entry of label_queue, and the top classes
\* returned while fewer than two classes were learnt
None == "None"

Classes == 0 .. (n_classes - 1)

Slots == 0 .. (n_models - 1)

\* ceil(n / d) for d > 0
Ceil(n, d) == IF n % d = 0 THEN n \div d ELSE (n \div d) + 1

sizesam == Ceil(sizelab * epsilon[1], epsilon[2] * n_classes)

\* the values random.uniform(0, 1) is drawn from
ZetaVals == {Zero, Half}

\* the values a top-two margin p_yc1 - p_yc2 is drawn from
MarginVals == {Zero, Half}

-----------------------------------------------------------------------------
(* class LIFO *)

\* LIFO.add popping the newest entry (pop() for pop(0))
LIFO_add_newest(queue, item, max_size) ==
    LET appended == Append(queue, item)
    IN IF Len(appended) > max_size
       THEN SubSeq(appended, 1, Len(appended) - 1)
       ELSE appended

LIFO_add(queue, item, max_size) ==
    LET appended == Append(queue, item)
    IN IF Len(appended) > max_size THEN Tail(appended) ELSE appended

LIFO_count(queue, x) == Cardinality({i \in 1 .. Len(queue) : queue[i] = x})

\* iteration order of __iter__/__next__: from the last index down to 0
LIFO_iter(queue) == [i \in 1 .. Len(queue) |-> queue[Len(queue) + 1 - i]]

-----------------------------------------------------------------------------
(* External collaborators: base learner and drift.ADWIN *)

\* a pristine base learner (model.clone())
FreshModel == [seen |-> {}]

\* model.learn_one(x, y) presented r times
Model_learn(m, y, r) == IF r > 0 THEN [m EXCEPT !.seen = @ \cup {y}] ELSE m

\* the values int(model.predict_one(x) == y) can take: a learner predicts
\* one of the labels it was trained on, an untrained one predicts None
PredictBits(m, y) == {IF l = y THEN 1 ELSE 0 : l \in m.seen} \cup
                     (IF m.seen = {} THEN {0} ELSE {})

\* drift.ADWIN(): an empty window
FreshDetector == [total |-> 0, width |-> 0]

\* ADWIN.estimation: the mean of the window, 0.0 for an empty window
Estimation(d) == IF d.width = 0 THEN Zero ELSE Frac(d.total, d.width)

\* ADWIN.update(bit): the bit enters the window; either no drift is
\* detected, or drift_detected is set and the window has dropped some of its
\* oldest entries (the newest bit stays)
ADWIN_update(d, bit) ==
    LET W == d.width + 1
        T == d.total + bit
        \* the windows of w entries, t of them ones, that the newest w of W
        \* entries (T of them ones, the newest being bit) can be
        Kept == {tw \in (bit .. T) \X (1 .. Min(W - 1, MaxKeep)) :
                    /\ tw[2] - tw[1] >= 1 - bit
                    /\ tw[2] - tw[1] <= W - T}
    IN {[det |-> [d EXCEPT !.total = T, !.width = W], drift_detected |-> FALSE]}
       \cup
       {[det |-> [d EXCEPT !.total = tw[1], !.width = tw[2]],
         drift_detected |-> TRUE] : tw \in Kept}

\* the key set of the Counter built by predict_proba_one: every label some
\* base learner reports, i.e. was trained on
PredictedLabels(ms) == UNION {ms[k].seen : k \in Slots}

\* the top-two rankings sorted(predict_proba_one(x).items()) can start with
Predictions(ms) ==
    IF Cardinality(PredictedLabels(ms)) < 2
    THEN {[margin |-> Zero, yc1 |-> None, yc2 |-> None]}
    ELSE {p \in [margin : MarginVals,
                  yc1 : PredictedLabels(ms),
                  yc2 : PredictedLabels(ms)] : p.yc1 # p.yc2}

-----------------------------------------------------------------------------
(* class CALMID: helpers *)

\* compute_imbalance(y) on the window lq
compute_imbalance(lq, y) ==
    LET queried == Len(lq) - LIFO_count(lq, None)
    IN IF queried = 0
       THEN [err |-> "ZeroDivisionError", val |-> Zero]
       ELSE [err |-> "none",
             val |-> Frac(LIFO_count(lq, y) * n_classes, queried)]

\* compute_probability_margin_and_top_classes(x), p being the ranking the
\* ensemble's predict_proba_one gives for x
compute_probability_margin_and_top_classes(lc, ms, p) ==
    IF lc < 2
    THEN [err |-> "none", margin |-> Zero, yc1 |-> None, yc2 |-> None]
    ELSE IF Cardinality(PredictedLabels(ms)) < 2
         THEN [err |-> "IndexError", margin |-> Zero, yc1 |-> None, yc2 |-> None]
         ELSE [err |-> "none", margin |-> p.margin, yc1 |-> p.yc1, yc2 |-> p.yc2]

\* compute_weight(x, y): w itself is abstracted, the errors it can end in
\* are not: the imbalance is evaluated first, then the sample difficulty
compute_weight(lq, lc, ms, p, y) ==
    LET imb == compute_imbalance(lq, y)
        top == compute_probability_margin_and_top_classes(lc, ms, p)
    IN IF imb.err # "none" THEN imb.err ELSE top.err

\* amt_matrix[i][j] *= (1 - step_size)
Decrease(M, i, j) ==
    [M EXCEPT ![i][j] = RMul(@, RSub(One, step_size))]

\* the increase without its floor
Increase_unclamped(M, i, j) ==
    [M EXCEPT ![i][j] = RMul(@, RAdd(One, step_size))]

\* amt_matrix[i][j] = max([theta, amt_matrix[i][j] * (1 + step_size)])
Increase(M, i, j) ==
    [M EXCEPT ![i][j] = RMax(theta, RMul(@, RAdd(One, step_size)))]

\* the update of amt_matrix[i][j] in the branch margin <= amt_matrix[i][j]
CaseA_update(M, i, j, y, yc1, yc2, imb_y) ==
    IF y = yc1
    THEN IF RLt(Half, imb_y)
         THEN Decrease(Decrease(M, i, j), i, j)
         ELSE Decrease(M, i, j)
    ELSE IF y = yc2 /\ RLt(Half, imb_y)
         THEN Decrease(M, i, j)
         ELSE M

\* the branch margin > amt_matrix[i][j] decreasing where it should increase
CaseB_update_swapped(M, i, j, y, yc2, labelling) ==
    IF labelling /\ y = yc2 THEN Decrease(M, i, j) ELSE M

\* the branch margin > amt_matrix[i][j] increasing whatever the true label
CaseB_update_any(M, i, j, y, yc2, labelling) ==
    IF labelling THEN Increase(M, i, j) ELSE M

\* the update of amt_matrix[i][j] in the branch margin > amt_matrix[i][j]
CaseB_update(M, i, j, y, yc2, labelling) ==
    IF labelling /\ y = yc2 THEN Increase(M, i, j) ELSE M

\* uncertainty_selective_strategy(x, y) in the state s (time_step already
\* incremented), p the ensemble's ranking for x, zeta2 the uniform draw of
\* line 190. case is "A" (margin <= threshold), "B", or "none" when the
\* call raised before the comparison; drew tells whether line 190 ran.
uncertainty_selective_strategy(s, y, p, zeta2) ==
    LET top == compute_probability_margin_and_top_classes(
                   s.learnt_classes, s.models, p)
        raise(e, c) == [err |-> e, labelling |-> FALSE,
                        amt_matrix |-> s.amt_matrix, case |-> c,
                        drew |-> FALSE, yc1 |-> top.yc1, yc2 |-> top.yc2]
    IN IF top.err # "none" THEN raise(top.err, "none")
       ELSE IF top.yc1 \notin DOMAIN s.label_to_index
                 \/ top.yc2 \notin DOMAIN s.label_to_index
            THEN raise("KeyError", "none")
            ELSE
    LET i == s.label_to_index[top.yc1]
        j == s.label_to_index[top.yc2]
        T == s.amt_matrix[i][j]
    IN IF RLe(top.margin, T)
       THEN LET imb_y == compute_imbalance(s.label_queue, y)
            IN IF imb_y.err # "none" THEN raise(imb_y.err, "A")
               ELSE [err |-> "none", labelling |-> TRUE,
                     amt_matrix |-> CaseA_update(s.amt_matrix, i, j, y,
                                                 top.yc1, top.yc2, imb_y.val),
                     case |-> "A", drew |-> FALSE,
                     yc1 |-> top.yc1, yc2 |-> top.yc2]
       ELSE LET sampbudget == RSub(budget,
                                   Frac(s.learning_step, s.time_step))
                q == RSub(top.margin, T)
                den == RAdd(sampbudget, q)
            IN IF den[1] = 0 THEN raise("ZeroDivisionError", "B")
               ELSE LET labelling == RLt(zeta2, RDiv(sampbudget, den))
                    IN [err |-> "none", labelling |-> labelling,
                        amt_matrix |-> CaseB_update(s.amt_matrix, i, j, y,
                                                    top.yc2, labelling),
                        case |-> "B", drew |-> TRUE,
                        yc1 |-> top.yc1, yc2 |-> top.yc2]

-----------------------------------------------------------------------------
(* CALMID.learn_one, in three stages *)

\* the state of the ensemble as one record
Cur == [time_step |-> time_step, learning_step |-> learning_step,
        learnt_classes |-> learnt_classes,
        label_to_index |-> label_to_index, label_queue |-> label_queue,
        learning_queues |-> learning_queues, amt_matrix |-> amt_matrix,
        models |-> models, drift_detectors |-> drift_detectors]

\* what a call that has not trained or reset anything reports
NoInfo == [err |-> "none", branch |-> "none", labelling |-> FALSE,
           uss |-> "none", uss_labelling |-> FALSE, y |-> None,
           yc1 |-> None, yc2 |-> None,
           global_draws |-> 0, rng_draws |-> 0,
           change_detected |-> FALSE, replaced |-> {},
           fed_models |-> <<>>, fed_detectors |-> <<>>,
           replay |-> <<>>, trained |-> <<>>]

\* a warmup one call short, and a missing budget test
Warmup_short(ts) == ts < sizelab - 1

UnderBudget_none(ls, ts) == TRUE

\* the budget test passing at learning_step / time_step = budget
UnderBudget_inclusive(ls, ts) == RLe(Frac(ls, ts), budget)

\* the test of line 109 and of line 115
Warmup(ts) == ts < sizelab

UnderBudget(ls, ts) == RLt(Frac(ls, ts), budget)

\* the dense index given to a label on its first query (lines 124-125)
Register(l2i, y) ==
    IF y \in DOMAIN l2i THEN l2i ELSE l2i @@ (y :> Cardinality(DOMAIN l2i))

\* lines 105-134: the query decision, the registration of the label, the
\* weight and the push into the class's replay queue. A raised error leaves
\* the assignments made before it.
Query(s, y, zeta, p, zeta2) ==
    LET s1 == [s EXCEPT !.time_step = @ + 1]
        explore == Warmup(s1.time_step) \/ RLt(zeta, epsilon)
        u == uncertainty_selective_strategy(s1, y, p, zeta2)
        info1 == [NoInfo EXCEPT
                    !.y = y,
                    !.branch = IF Warmup(s1.time_step) THEN "warmup"
                               ELSE IF explore THEN "explore" ELSE "uss",
                    !.uss = IF explore THEN "none" ELSE u.case,
                    !.uss_labelling = IF explore THEN FALSE ELSE u.labelling,
                    !.yc1 = IF explore THEN None ELSE u.yc1,
                    !.yc2 = IF explore THEN None ELSE u.yc2,
                    !.global_draws = IF ~explore /\ u.drew THEN 2 ELSE 1]
    IN IF ~explore /\ u.err # "none"
       THEN [st |-> s1, info |-> [info1 EXCEPT !.err = u.err]]
       ELSE
    LET labelling == explore
                     \/ (u.labelling
                         /\ UnderBudget(s1.learning_step, s1.time_step))
        s2 == [s1 EXCEPT
                 !.label_queue = LIFO_add(@, IF explore THEN y ELSE None,
                                          sizelab),
                 !.amt_matrix = IF explore THEN @ ELSE u.amt_matrix]
        info2 == [info1 EXCEPT !.labelling = labelling]
    IN IF ~labelling THEN [st |-> s2, info |-> info2]
       ELSE
    LET s3 == [s2 EXCEPT !.label_to_index = Register(@, y),
                         !.learning_step = @ + 1]
        werr == compute_weight(s3.label_queue, s3.learnt_classes,
                               s3.models, p, y)
        c == s3.label_to_index[y]
    IN IF werr # "none"
       THEN [st |-> s3, info |-> [info2 EXCEPT !.err = werr]]
       ELSE IF c \notin Classes
            THEN [st |-> s3, info |-> [info2 EXCEPT !.err = "IndexError"]]
            ELSE [st |-> [s3 EXCEPT !.learning_queues[c] =
                                LIFO_add(@, [y |-> y, t |-> s3.time_step],
                                         sizesam)],
                  info |-> info2]

\* what the loop of lines 137-148 can do with learner k: after r
\* presentations of (x, y) the learner is m (learnt tells whether r > 0),
\* a bit is fed to its detector, and out is the detector's reaction
SlotChoices(s, y, k) ==
    UNION {UNION {{[m |-> Model_learn(s.models[k], y, r), learnt |-> r > 0,
                    out |-> out] :
                      out \in ADWIN_update(s.drift_detectors[k], bit)} :
                  bit \in PredictBits(Model_learn(s.models[k], y, r), y)} :
           r \in 0 .. MaxPoisson}

\* one choice for each of the learners 0 .. k
RECURSIVE ChoicesUpTo(_, _, _)
ChoicesUpTo(s, y, k) ==
    IF k < 0 THEN {<<>>}
    ELSE {g @@ (k :> c) : g \in ChoicesUpTo(s, y, k - 1),
                          c \in SlotChoices(s, y, k)}

TrainChoices(s, y) == ChoicesUpTo(s, y, n_models - 1)

\* lines 146-148 for learner k: the drift flag is set and the estimate rose
MarksChange(before, out) ==
    out.drift_detected /\ RLt(Estimation(before), Estimation(out.det))

\* lines 137-148: weighted online bagging and the feeding of the detectors
Train(q, y, f) ==
    LET s == q.st
        trained == \E k \in Slots : f[k].learnt
    IN [st |-> [s EXCEPT
                  !.models = [k \in Slots |-> f[k].m],
                  !.learnt_classes = IF trained
                                     THEN Cardinality(DOMAIN s.label_to_index)
                                     ELSE @,
                  !.drift_detectors = [k \in Slots |-> f[k].out.det]],
        info |-> [q.info EXCEPT
                  !.rng_draws = n_models,
                  !.change_detected =
                      \E k \in Slots : MarksChange(s.drift_detectors[k], f[k].out)]]

\* the last maximal index instead of the first
MaxErrorIdx_last(dd) ==
    CHOOSE k \in Slots :
        /\ \A j \in Slots : RLe(Estimation(dd[j]), Estimation(dd[k]))
        /\ \A j \in Slots : j > k => RLt(Estimation(dd[j]), Estimation(dd[k]))

\* max(range(len(detectors)), key = estimation): the first maximal index
MaxErrorIdx(dd) ==
    CHOOSE k \in Slots :
        /\ \A j \in Slots : RLe(Estimation(dd[j]), Estimation(dd[k]))
        /\ \A j \in Slots : j < k => RLt(Estimation(dd[j]), Estimation(dd[k]))

\* lines 240-243: the queues of the classes 0, 1, ... one after the other,
\* each in the iteration order of LIFO
RECURSIVE SampleSequence(_, _)
SampleSequence(lqs, i) ==
    IF i >= n_classes THEN <<>>
    ELSE LIFO_iter(lqs[i]) \o SampleSequence(lqs, i + 1)

\* sorted(sample_sequence, key = timestamp): a stable sort
RECURSIVE InsertSorted(_, _)
InsertSorted(sorted, e) ==
    IF sorted = <<>> THEN <<e>>
    ELSE IF e.t < Head(sorted).t THEN <<e>> \o sorted
         ELSE <<Head(sorted)>> \o InsertSorted(Tail(sorted), e)

RECURSIVE SortByTime(_)
SortByTime(seq) ==
    IF seq = <<>> THEN <<>>
    ELSE InsertSorted(SortByTime(SubSeq(seq, 1, Len(seq) - 1)), seq[Len(seq)])

\* the replay sequence left in queue order
SortedSampleSequence_unsorted(lqs) == SampleSequence(lqs, 0)

SortedSampleSequence(lqs) == SortByTime(SampleSequence(lqs, 0))

\* lines 247-257: the presentations made to the fresh learner, rr[n] being
\* the number of times sample n is presented
RECURSIVE Presentations(_, _, _)
Presentations(seq, rr, n) ==
    IF n > Len(seq) THEN <<>>
    ELSE [i \in 1 .. rr[n] |-> seq[n]] \o Presentations(seq, rr, n + 1)

ReplayChoices(s) ==
    [1 .. Len(SortedSampleSequence(s.learning_queues)) -> 0 .. MaxPoisson]

\* initalize_base_classifiers(): a clone trained on the replay queues
initalize_base_classifiers(s, rr) ==
    LET trained == Presentations(SortedSampleSequence(s.learning_queues), rr, 1)
    IN [FreshModel EXCEPT
          !.seen = {trained[n].y : n \in 1 .. Len(trained)}]

\* lines 150-156: the reset of one slot
Reset(tr, rr) ==
    LET s == tr.st
        k == MaxErrorIdx(s.drift_detectors)
        seq == SortedSampleSequence(s.learning_queues)
    IN [st |-> [s EXCEPT
                  !.models[k] = initalize_base_classifiers(s, rr),
                  !.drift_detectors[k] = FreshDetector],
        info |-> [tr.info EXCEPT
                  !.replaced = {k},
                  !.fed_models = s.models,
                  !.fed_detectors = s.drift_detectors,
                  !.replay = seq,
                  !.trained = Presentations(seq, rr, 1),
                  !.global_draws = @ + Len(seq),
                  !.rng_draws = @ + Len(seq)]]

-----------------------------------------------------------------------------
(* CALMID.__init__ *)

\* the arguments the ensemble of this model is constructed with
Args(nm) == [n_classes |-> n_classes, n_models |-> nm, theta |-> theta,
             step_size |-> step_size, epsilon |-> epsilon, budget |-> budget,
             sizelab |-> sizelab]

\* the arguments a construction is attempted with
ArgSets == [n_classes : {-1, 0, 1, 2}, n_models : {-1, 0, 2},
            theta : {theta}, step_size : {step_size},
            epsilon : {<<-1, 8>>, Zero, epsilon, One, <<9, 8>>},
            budget : {epsilon, budget, <<5, 4>>},
            sizelab : {-1, 0, 1, 3}]

\* math.ceil of the rational q
CeilR(q) == Ceil(q[1], q[2])

\* the error __init__ raises for the arguments a, "none" if it returns:
\* the two tests of lines 57-60, the ensemble base class refusing an empty
\* list of learners (line 62), and the division of line 81
InitError(a) ==
    IF RLe(a.budget, a.epsilon) THEN "ValueError"
    ELSE IF ~(RLe(Zero, a.epsilon) /\ RLe(a.epsilon, One)) THEN "ValueError"
    ELSE IF a.n_models < 1 THEN "ValueError"
    ELSE IF a.n_classes = 0 THEN "ZeroDivisionError"
    ELSE "none"

\* the attributes lines 64-91 give the new ensemble
InitState(a) ==
    [time_step |-> 0, learning_step |-> 0, learnt_classes |-> 0,
     label_to_index |-> <<>>, label_queue |-> <<>>,
     sizesam |-> CeilR(RDiv(RMul(<<a.sizelab, 1>>, a.epsilon),
                            <<a.n_classes, 1>>)),
     learning_queues |-> [c \in 0 .. (a.n_classes - 1) |-> <<>>],
     amt_matrix |-> [i \in 0 .. (a.n_classes - 1) |->
                        [j \in 0 .. (a.n_classes - 1) |-> a.theta]],
     models |-> [k \in 0 .. (a.n_models - 1) |-> FreshModel],
     drift_detectors |-> [k \in 0 .. (a.n_models - 1) |-> FreshDetector]]

-----------------------------------------------------------------------------
(* CALMID.predict_proba_one *)

\* no call of predict_proba_one was made yet
NoPrediction == [called |-> FALSE, probas |-> <<>>, out |-> <<>>]

\* the probabilities a base learner reports for a label
ProbaVals == {Zero, Half, One}

\* what the base learners' predict_proba_one can return for x: learner k
\* reports a probability for each label it was trained on
MemberProbas(ms) ==
    {f \in [Slots -> UNION {[S -> ProbaVals] : S \in SUBSET Labels}] :
        \A k \in Slots : DOMAIN f[k] = ms[k].seen}

\* y_pred after the loop of lines 96-98: a Counter holding, for every label
\* some learner reported, the sum of the reported probabilities
RECURSIVE SumOver(_, _, _)
SumOver(probas, l, k) ==
    IF k < 0 THEN Zero
    ELSE RAdd(IF l \in DOMAIN probas[k] THEN probas[k][l] ELSE Zero,
              SumOver(probas, l, k - 1))

Counter_update(probas) ==
    [l \in UNION {DOMAIN probas[k] : k \in Slots} |->
        SumOver(probas, l, n_models - 1)]

\* sum(y_pred.values())
RECURSIVE SumValues(_, _)
SumValues(f, S) ==
    IF S = {} THEN Zero
    ELSE LET l == CHOOSE l \in S : TRUE
         IN RAdd(f[l], SumValues(f, S \ {l}))

\* lines 99-102: the normalised mapping if total > 0, else y_pred itself
Normalise(y_pred, total) ==
    IF RLt(Zero, total)
    THEN [l \in DOMAIN y_pred |-> RDiv(y_pred[l], total)]
    ELSE y_pred

-----------------------------------------------------------------------------
(* The state machine *)

Init ==
    /\ n_models \in EnsembleSizes
    /\ time_step = 0
    /\ learning_step = 0
    /\ learnt_classes = 0
    /\ label_to_index = <<>>
    /\ label_queue = <<>>
    /\ learning_queues = [c \in Classes |-> <<>>]
    /\ amt_matrix = [i \in Classes |-> [j \in Classes |-> theta]]
    /\ models = [k \in Slots |-> FreshModel]
    /\ drift_detectors = [k \in Slots |-> FreshDetector]
    /\ last = NoInfo
    /\ predicted = NoPrediction
    /\ construction = [called |-> TRUE, args |-> Args(n_models),
                       err |-> "none"]

Commit(r) ==
    /\ time_step' = r.st.time_step
    /\ learning_step' = r.st.learning_step
    /\ learnt_classes' = r.st.learnt_classes
    /\ label_to_index' = r.st.label_to_index
    /\ label_queue' = r.st.label_queue
    /\ learning_queues' = r.st.learning_queues
    /\ amt_matrix' = r.st.amt_matrix
    /\ models' = r.st.models
    /\ drift_detectors' = r.st.drift_detectors
    /\ last' = r.info
    /\ UNCHANGED <<n_models, predicted, construction>>

\* the number of calls the run is followed for
Horizon == IF n_models = 1 THEN MaxSteps ELSE MaxEnsembleSteps

\* the rankings the call can observe: outside the USS branch the ranking
\* only feeds the abstracted weight
Rankings(s, zeta) ==
    IF Warmup(s.time_step + 1) \/ RLt(zeta, epsilon)
    THEN {CHOOSE p \in Predictions(s.models) : TRUE}
    ELSE Predictions(s.models)

\* the draws of line 107 the call can tell apart: during warmup the draw is
\* made and not looked at
FirstDraws(s) == IF Warmup(s.time_step + 1) THEN {Zero} ELSE ZetaVals

\* the second uniform draw is made only in the branch margin > threshold
SecondDraws(s, y, zeta, p) ==
    IF Query(s, y, zeta, p, Zero).info.global_draws = 2 THEN ZetaVals ELSE {Zero}

\* one call learn_one(x, y): the query stage, then for a queried sample the
\* training loop, then after a marked change the reset
learn_one_call(y) ==
    \E zeta \in FirstDraws(Cur) : \E p \in Rankings(Cur, zeta) :
    \E zeta2 \in SecondDraws(Cur, y, zeta, p) :
    \E q \in {Query(Cur, y, zeta, p, zeta2)} :
       IF q.info.err # "none" \/ ~q.info.labelling
       THEN Commit(q)
       ELSE \E f \in TrainChoices(q.st, y) : \E tr \in {Train(q, y, f)} :
              IF ~tr.info.change_detected
              THEN Commit(tr)
              ELSE \E rr \in ReplayChoices(tr.st) :
                   \E r \in {Reset(tr, rr)} : Commit(r)

\* the calls of a run of at most Horizon calls
learn_one(y) ==
    /\ time_step < Horizon
    /\ learn_one_call(y)

Next == \E y \in Labels : learn_one(y)

Spec == Init /\ [][Next]_vars

\* one call predict_proba_one(x), probas being what the learners report
predict_proba_one ==
    /\ ~predicted.called
    /\ \E probas \in MemberProbas(models) :
       \E y_pred \in {Counter_update(probas)} :
          predicted' = [called |-> TRUE, probas |-> probas,
                        out |-> Normalise(y_pred,
                                          SumValues(y_pred, DOMAIN y_pred))]
    /\ UNCHANGED <<n_models, time_step, learning_step, learnt_classes,
                   label_to_index, label_queue, learning_queues, amt_matrix,
                   models, drift_detectors, last, construction>>

\* learn_one calls followed by one predict_proba_one call
TrainThenPredict(y) ==
    /\ time_step < MaxPredictSteps
    /\ ~predicted.called
    /\ learn_one(y)

PredictNext == (\E y \in Labels : TrainThenPredict(y)) \/ predict_proba_one

PredictSpec == Init /\ [][PredictNext]_vars

\* a single learner
DroughtInit == Init /\ n_models = 1

\* the calls of a run in which, once the warmup is over, no draw of line 107
\* falls below epsilon
Drought(y) ==
    /\ time_step < MaxDroughtSteps
    /\ learn_one_call(y)
    /\ last'.branch # "explore"

DroughtNext == \E y \in Labels : Drought(y)

DroughtSpec == DroughtInit /\ [][DroughtNext]_vars

\* before the construction there is no ensemble
ConstructInit ==
    /\ construction \in [called : {FALSE}, args : ArgSets, err : {"none"}]
    /\ n_models = construction.args.n_models
    /\ time_step = None
    /\ learning_step = None
    /\ learnt_classes = None
    /\ label_to_index = None
    /\ label_queue = None
    /\ learning_queues = None
    /\ amt_matrix = None
    /\ models = None
    /\ drift_detectors = None
    /\ last = NoInfo
    /\ predicted = NoPrediction

\* CALMID(n_classes, model, n_models, theta, step_size, epsilon, budget,
\* sizelab, seed): a raised error leaves no ensemble
CALMID_init ==
    /\ ~construction.called
    /\ \E e \in {InitError(construction.args)} :
          /\ construction' = [construction EXCEPT !.called = TRUE, !.err = e]
          /\ IF e # "none"
             THEN UNCHANGED <<time_step, learning_step, learnt_classes,
                              label_to_index, label_queue, learning_queues,
                              amt_matrix, models, drift_detectors>>
             ELSE \E s \in {InitState(construction.args)} :
                    /\ time_step' = s.time_step
                    /\ learning_step' = s.learning_step
                    /\ learnt_classes' = s.learnt_classes
                    /\ label_to_index' = s.label_to_index
                    /\ label_queue' = s.label_queue
                    /\ learning_queues' = s.learning_queues
                    /\ amt_matrix' = s.amt_matrix
                    /\ models' = s.models
                    /\ drift_detectors' = s.drift_detectors
    /\ UNCHANGED <<n_models, last, predicted>>

ConstructSpec == ConstructInit /\ [][CALMID_init]_vars

-----------------------------------------------------------------------------
(* Properties *)

\* the matrix entry the last USS call looked at
LastEntry == amt_matrix[label_to_index[last.yc1]][label_to_index[last.yc2]]

\* the last call increased a matrix entry (lines 193-204)
LastIncreased ==
    /\ last.err = "none"
    /\ last.uss = "B"
    /\ last.uss_labelling
    /\ last.y = last.yc2

AllAtTheta == \A i \in Classes, j \in Classes : amt_matrix[i][j] = theta

AllAboveTheta == \A i \in Classes, j \in Classes : RLe(theta, amt_matrix[i][j])

\* C1: no call of learn_one ends in an error (no lookup of an unregistered
\* top class, no division by zero, no index out of range).
C1_NeverThrows == last.err = "none"

\* C2 (as claimed): after exactly sizelab calls every call has queried:
\* learning_step = sizelab, the window holds sizelab labels and no
\* sentinel, USS was not invoked and the matrix still equals theta
\* (stated for the calls that end without an error).
C2_WarmupAllOfSizelab ==
    (time_step = sizelab /\ last.err = "none") =>
        /\ learning_step = sizelab
        /\ Len(label_queue) = sizelab
        /\ LIFO_count(label_queue, None) = 0
        /\ last.branch # "uss"
        /\ AllAtTheta

\* C2 (amended): each of the first sizelab - 1 calls takes the warmup
\* branch, queries the label and records it in the window without invoking
\* USS: up to then learning_step = time_step, the window holds time_step
\* labels and no sentinel, and the matrix equals theta everywhere.
C2_Warmup ==
    time_step <= sizelab - 1 =>
        /\ last.branch \in {"none", "warmup"}
        /\ last.uss = "none"
        /\ time_step > 0 => last.labelling
        /\ learning_step = time_step
        /\ Len(label_queue) = time_step
        /\ LIFO_count(label_queue, None) = 0
        /\ AllAtTheta

C2_Witness ==
    /\ time_step = sizelab - 1
    /\ learning_step = sizelab - 1
    /\ last.branch = "warmup"
    /\ Cardinality(DOMAIN label_to_index) = 2

\* C3 (as claimed): learning_step <= time_step, and once time_step >=
\* sizelab the ratio learning_step / time_step is <= budget + epsilon.
C3_RatioBound ==
    /\ learning_step <= time_step
    /\ time_step >= sizelab =>
          RLe(Frac(learning_step, time_step), RAdd(budget, epsilon))

\* C3 (amended): learning_step <= time_step, and a call that queried in the
\* USS branch found learning_step / time_step < budget beforehand
\* (time_step already incremented, learning_step not yet); warmup and
\* exploration calls query whatever the ratio is.
C3_Budget ==
    /\ learning_step <= time_step
    /\ (last.branch = "uss" /\ last.labelling) =>
          RLt(Frac(learning_step - 1, time_step), budget)

C3_Witness ==
    /\ last.branch = "uss"
    /\ last.labelling
    /\ time_step >= sizelab
    /\ RLt(RAdd(budget, epsilon), Frac(learning_step, time_step))

\* C4: the window holds min(time_step, sizelab) entries, each a sentinel or
\* a label.
C4_WindowSize ==
    /\ Len(label_queue) = Min(time_step, sizelab)
    /\ LIFO_count(label_queue, None)
         + Cardinality({n \in 1 .. Len(label_queue) : label_queue[n] \in Labels})
       = Len(label_queue)

\* every replay queue holds at most sizesam entries, each with a label
\* whose dense index is the queue's class
C5_QueueInv ==
    \A c \in Classes :
        /\ Len(learning_queues[c]) <= sizesam
        /\ \A n \in 1 .. Len(learning_queues[c]) :
              /\ learning_queues[c][n].y \in DOMAIN label_to_index
              /\ label_to_index[learning_queues[c][n].y] = c

\* a queried call that ends without an error pushes its sample onto the
\* queue of y's class, dropping the oldest entry of a full queue, and
\* leaves the other queues alone
C5_Push ==
    (last'.labelling /\ last'.err = "none") =>
        LET c == label_to_index'[last'.y]
            e == [y |-> last'.y, t |-> time_step']
            old == learning_queues[c]
        IN learning_queues' =
             [learning_queues EXCEPT ![c] =
                IF sizesam = 0 THEN <<>>
                ELSE IF Len(old) < sizesam THEN Append(old, e)
                     ELSE Append(Tail(old), e)]

\* C5: every per-class replay queue holds at most sizesam entries, each
\* with a label whose dense index is the queue's class, and a queried call
\* pushes (x, y, w, time_step) onto the queue of y's class, dropping the
\* oldest entry of a full queue.
C5_ReplayBuffer == []C5_QueueInv /\ [][C5_Push]_vars

C5_Witness ==
    /\ sizesam >= 1
    /\ Len(learning_queues[0]) = sizesam
    /\ Head(learning_queues[0]).t > 1
    /\ last.err = "none"

\* C6 (as claimed): in every reachable state every matrix entry is >= theta.
C6_Floor == AllAboveTheta

\* C6 (amended): the matrix starts at theta everywhere, and every call that
\* is not a USS call of the branch margin <= threshold leaves every entry
\* >= theta if every entry was; the decreases of that branch are not
\* floored and take an entry below theta.
C6_FloorButCaseA ==
    /\ AllAtTheta
    /\ [][(AllAboveTheta /\ last'.uss # "A") => AllAboveTheta']_vars

C6_Witness ==
    /\ LastIncreased
    /\ RLt(theta, LastEntry)

C8_SeededDraws == last.global_draws = 0

\* k is the first index at which the estimation of the detectors dd is
\* maximal
IsFirstMax(dd, k) ==
    /\ \A j \in Slots : RLe(Estimation(dd[j]), Estimation(dd[k]))
    /\ \A j \in Slots : j < k => RLt(Estimation(dd[j]), Estimation(dd[k]))

Labelled(seq) == {seq[n].y : n \in 1 .. Len(seq)}

\* C9: a call that marks a change replaces exactly one slot, the lowest
\* index among the detectors of maximal estimate after all learners were
\* fed: its learner is a fresh one and its detector a fresh one, every
\* other learner and detector is as the feeding left it. A call that marks
\* no change replaces nothing.
C9_ResetSlot ==
    /\ last.change_detected =>
          \E k \in Slots :
              /\ IsFirstMax(last.fed_detectors, k)
              /\ last.replaced = {k}
              /\ drift_detectors[k] = FreshDetector
              /\ models[k].seen = Labelled(last.trained)
              /\ \A j \in Slots \ {k} :
                    /\ models[j] = last.fed_models[j]
                    /\ drift_detectors[j] = last.fed_detectors[j]
    /\ ~last.change_detected => last.replaced = {}

\* a reset decided by the tie-break: both detectors at the same estimate
C9_Witness ==
    /\ last.change_detected
    /\ n_models = 2
    /\ Estimation(last.fed_detectors[0]) = Estimation(last.fed_detectors[1])
    /\ last.replaced = {0}
    /\ last.fed_models[0].seen # {}

\* every entry of every replay queue
Buffered == UNION {{learning_queues[c][n] : n \in 1 .. Len(learning_queues[c])} :
                   c \in Classes}

\* C10: the timestamps of the buffered entries are pairwise distinct, and
\* the learner a reset installs was trained only on entries that are in the
\* replay queues at the reset (the entry of the current call among them
\* when sizesam >= 1), presented in ascending timestamp order.
C10_Replay ==
    /\ \A e \in Buffered, f \in Buffered : e.t = f.t => e = f
    /\ \A c \in Classes : \A n \in 1 .. Len(learning_queues[c]) :
          \A m \in 1 .. Len(learning_queues[c]) :
              n < m => learning_queues[c][n].t < learning_queues[c][m].t
    /\ last.change_detected =>
          /\ {last.replay[n] : n \in 1 .. Len(last.replay)} = Buffered
          /\ Len(last.replay) = Cardinality(Buffered)
          /\ \A n \in 1 .. Len(last.replay) : \A m \in 1 .. Len(last.replay) :
                n < m => last.replay[n].t < last.replay[m].t
          /\ \A n \in 1 .. Len(last.trained) :
                /\ last.trained[n] \in Buffered
                /\ \A m \in 1 .. Len(last.trained) :
                      n < m => last.trained[n].t <= last.trained[m].t
          /\ sizesam >= 1 => [y |-> last.y, t |-> time_step] \in Buffered
          /\ \A k \in last.replaced : models[k].seen = Labelled(last.trained)

\* a reset whose replay had to be reordered: the entry of class 1 is older
\* than the entry of class 0, and both were presented
C10_Witness ==
    /\ last.change_detected
    /\ Len(last.replay) = 2
    /\ label_to_index[last.replay[1].y] = 1
    /\ Len(last.trained) = 2

\* the mass over all labels and learners that the learners reported
TotalMass == SumValues(Counter_update(predicted.probas),
                       DOMAIN Counter_update(predicted.probas))

\* C11: predict_proba_one returns for each label the sum of its
\* probabilities over the learners divided by the total mass; a non-empty
\* result sums to 1, and the result is empty when the total mass is zero.
C11_Normalized ==
    predicted.called =>
        /\ TotalMass = Zero => DOMAIN predicted.out = {}
        /\ DOMAIN predicted.out # {} =>
              SumValues(predicted.out, DOMAIN predicted.out) = One
        /\ RLt(Zero, TotalMass) =>
              \A l \in DOMAIN predicted.out :
                 predicted.out[l] =
                    RDiv(SumOver(predicted.probas, l, n_models - 1), TotalMass)

\* the arguments of the construction violate the constructor contract
InvalidConfiguration ==
    \/ RLe(construction.args.budget, construction.args.epsilon)
    \/ RLt(construction.args.epsilon, Zero)
    \/ RLt(One, construction.args.epsilon)
    \/ construction.args.n_classes <= 0
    \/ construction.args.n_models <= 0
    \/ construction.args.sizelab <= 0

\* C12: construction fails, creating no ensemble, whenever budget <=
\* epsilon, epsilon is outside [0, 1] or a size is non-positive; otherwise
\* it succeeds with the counters at 0, an empty registry, window and replay
\* queues, and a matrix equal to theta everywhere.
C12_Constructor ==
    construction.called =>
        /\ InvalidConfiguration => (construction.err # "none" /\ models = None)
        /\ ~InvalidConfiguration =>
              /\ construction.err = "none"
              /\ time_step = 0 /\ learning_step = 0 /\ learnt_classes = 0
              /\ label_to_index = <<>> /\ label_queue = <<>>
              /\ \A c \in DOMAIN learning_queues : learning_queues[c] = <<>>
              /\ DOMAIN amt_matrix = 0 .. (construction.args.n_classes - 1)
              /\ \A i \in DOMAIN amt_matrix :
                    /\ DOMAIN amt_matrix[i] = DOMAIN amt_matrix
                    /\ \A j \in DOMAIN amt_matrix[i] :
                          amt_matrix[i][j] = construction.args.theta

\* the value the branch margin <= M[i][j] leaves in M[i][j], for the old
\* value v, the true label y and the imbalance imb of y
CaseA_expected(v, y, yc1, yc2, imb) ==
    IF y = yc1 /\ RLt(Half, imb)
    THEN RMul(v, RMul(RSub(One, step_size), RSub(One, step_size)))
    ELSE IF y = yc1 \/ (y = yc2 /\ RLt(Half, imb))
         THEN RMul(v, RSub(One, step_size))
         ELSE v

\* C13: a USS call with margin <= M[i][j] returns true and changes at most
\* M[i][j]: times (1 - step_size)^2 if y = yc1 and imbalance(y) > 0.5, times
\* (1 - step_size) if y = yc1 and imbalance(y) <= 0.5 or if y = yc2 and
\* imbalance(y) > 0.5, unchanged in every other case.
C13_CaseA ==
    [][last'.uss = "A" =>
          /\ last'.uss_labelling
          /\ LET i == label_to_index[last'.yc1]
                 j == label_to_index[last'.yc2]
             IN amt_matrix' =
                  [amt_matrix EXCEPT ![i][j] =
                     CaseA_expected(@, last'.y, last'.yc1, last'.yc2,
                                    compute_imbalance(label_queue, last'.y).val)]
      ]_vars

\* the matrix after the increase of the entry the last USS call looked at
IncreasedMatrix ==
    [amt_matrix EXCEPT
       ![label_to_index[last'.yc1]][label_to_index[last'.yc2]] =
          RMax(theta, RMul(@, RAdd(One, step_size)))]

\* C14: a matrix entry strictly increases only in a USS call of the branch
\* margin > M[i][j] in which the second-chance draw selected labelling and
\* y = yc2; in that call only M[i][j] changes, to max(theta, old * (1 +
\* step_size)), and that branch makes no other change to the matrix.
C14_IncreaseOnlyCaseB ==
    [][/\ (\E i \in Classes, j \in Classes :
              RLt(amt_matrix[i][j], amt_matrix'[i][j])) =>
             /\ last'.uss = "B"
             /\ last'.uss_labelling
             /\ last'.y = last'.yc2
       /\ last'.uss = "B" =>
             amt_matrix' = IF last'.uss_labelling /\ last'.y = last'.yc2
                           THEN IncreasedMatrix
                           ELSE amt_matrix
      ]_vars

\* an increase that the floor did not clamp: from theta to theta * (1 +
\* step_size), in a call that the budget test then left unqueried or queried
C14_Witness ==
    /\ LastIncreased
    /\ LastEntry = RMul(theta, RAdd(One, step_size))
    /\ \A i \in Classes, j \in Classes :
          amt_matrix[i][j] # theta => amt_matrix[i][j] = LastEntry

\* C15: USS is never invoked in a state where learnt_classes < 2: every
\* call that reaches the USS branch finds at least two classes learnt, so
\* the margin function never hands USS the result (0, None, None).
C15_BootstrapGuard ==
    [][last'.branch = "uss" =>
          /\ learnt_classes >= 2
          /\ last'.yc1 # None
          /\ last'.yc2 # None]_vars

\* the window q holds at least one entry that is not the sentinel
HasLabel(q) == Len(q) > LIFO_count(q, None)

\* C16: whenever compute_imbalance is evaluated inside learn_one, the
\* window holds at least one label: in the branch margin <= M[i][j] of USS
\* (the window before the call's entry is added) and in the weight of a
\* queried sample (the window after it is added).
C16_WindowHasLabel ==
    [][/\ last'.uss = "A" => HasLabel(label_queue)
       /\ last'.labelling => HasLabel(label_queue')]_vars

\* C17: label_to_index is append-only and gives the dense indices 0, 1, ...
\* in the order of first queried occurrence; after every call that queried
\* a label learnt_classes equals the number of registered labels; and
\* learnt_classes never decreases and never exceeds n_classes.
C17_Registry ==
    [][/\ \/ label_to_index' = label_to_index
          \/ /\ last'.labelling
             /\ last'.y \notin DOMAIN label_to_index
             /\ label_to_index' =
                   label_to_index @@
                      (last'.y :> Cardinality(DOMAIN label_to_index))
       /\ last'.labelling =>
             learnt_classes' = Cardinality(DOMAIN label_to_index')
       /\ learnt_classes <= learnt_classes'
       /\ learnt_classes' <= n_classes]_vars

\* the window after the entry e was added to it
WindowAfter(e) ==
    IF Len(label_queue) < sizelab THEN Append(label_queue, e)
    ELSE Append(Tail(label_queue), e)

\* C18: a call that is neither warmup nor exploration queries the label
\* iff USS returned true and learning_step / time_step < budget (time_step
\* incremented, learning_step not yet), and the entry it appends to the
\* window is the sentinel, queried or not; the true label is appended only
\* by warmup and exploration calls.
C18_BudgetGate ==
    [][/\ last'.branch = "uss" =>
             /\ last'.labelling <=>
                   (last'.uss_labelling
                    /\ RLt(Frac(learning_step, time_step'), budget))
             /\ (last'.err = "none" \/ last'.labelling) =>
                   label_queue' = WindowAfter(None)
             /\ label_queue' \in {label_queue, WindowAfter(None)}
       /\ last'.branch \in {"warmup", "explore"} =>
             /\ last'.labelling
             /\ label_queue' = WindowAfter(last'.y)]_vars

\* USS returned true and the budget test refused the query, at a ratio of
\* exactly budget, after a run of USS calls of which one was queried
C18_Witness ==
    /\ last.branch = "uss"
    /\ last.uss_labelling
    /\ ~last.labelling
    /\ Frac(learning_step, time_step) = budget
    /\ learning_step = sizelab
    /\ label_queue = <<None, None, None>>

\* C19: each detector's estimate being the fraction of correct predictions
\* in its window, a change is marked only in a call in which the error rate
\* of some learner has risen (its fraction of correct predictions fell),
\* and the slot then replaced is one of highest error rate (lowest
\* fraction of correct predictions) among the learners as the call fed them.
C19_WorstReplaced ==
    [][last'.change_detected =>
          /\ \E k \in Slots :
                RLt(Estimation(last'.fed_detectors[k]),
                    Estimation(drift_detectors[k]))
          /\ \A k \in last'.replaced : \A j \in Slots :
                RLe(Estimation(last'.fed_detectors[k]),
                    Estimation(last'.fed_detectors[j]))]_vars

\* the next call made with the true label y1 and made with y2, from the
\* same state and with the same draws and ranking, ends in the same state
\* whenever neither of the two queries the label
SameStep(y1, y2, zeta, p, zeta2) ==
    \E q1 \in {Query(Cur, y1, zeta, p, zeta2)} :
    \E q2 \in {Query(Cur, y2, zeta, p, zeta2)} :
       (/\ q1.info.err = "none" /\ ~q1.info.labelling
        /\ q2.info.err = "none" /\ ~q2.info.labelling) => q1.st = q2.st

\* C20: two calls from the same state with the same x and the same draws
\* but different true labels end in the same state if neither queries the
\* label; a call that does not query leaves the matrix, learning_step, the
\* registry, the replay queues, the learners and the detectors unchanged,
\* increments time_step and appends one sentinel.
C20_UnqueriedLabel ==
    /\ [](\A y1 \in Labels, y2 \in Labels :
            \A zeta \in ZetaVals, zeta2 \in ZetaVals :
               \A p \in Predictions(models) :
                  SameStep(y1, y2, zeta, p, zeta2))
    /\ [][(last'.err = "none" /\ ~last'.labelling) =>
             /\ amt_matrix' = amt_matrix
             /\ learning_step' = learning_step
             /\ label_to_index' = label_to_index
             /\ learning_queues' = learning_queues
             /\ models' = models
             /\ drift_detectors' = drift_detectors
             /\ learnt_classes' = learnt_classes
             /\ time_step' = time_step + 1
             /\ label_queue' = WindowAfter(None)]_vars

====
